---- MODULE Spec2Model ----
(***************************************************************************)
(* A model of dash_kast.py: the two cleaning functions, the cleaning and   *)
(* cumulative-sum pipeline, the merge of the cleaned and cumulative        *)
(* tables, the key-metric summary and the metric multiselect of the page.  *)
(*                                                                         *)
(* Text is a sequence of one-character strings.  A number is the exact     *)
(* decimal m / 10^e, kept normalised (e = 0 or m not a multiple of 10), so *)
(* that two records are equal exactly when the numbers are; binary         *)
(* floating-point rounding is not represented.                             *)
(***************************************************************************)
EXTENDS Integers, Sequences, FiniteSets, TLC

\* ------------------------------------------------------------------ bounds

\* longest enumerated text handed to a cleaner
MaxLen == 3

\* most rows of an enumerated dataset
MaxRows == 2

\* ------------------------------------------------------------------ values

\* a Python str
Text(s) == [tag |-> "str", s |-> s, m |-> 0, e |-> 0]

RECURSIVE Normalise(_, _)
Normalise(m, e) == IF m = 0 THEN <<0, 0>>
                   ELSE IF e > 0 /\ m % 10 = 0 THEN Normalise(m \div 10, e - 1)
                   ELSE <<m, e>>

\* a Python int or float: the decimal m / 10^e
Number(m, e) == LET n == Normalise(m, e)
                IN  [tag |-> "num", s |-> <<>>, m |-> n[1], e |-> n[2]]

\* float('nan'), the value pandas fills a missing cell with
NaN == [tag |-> "nan", s |-> <<>>, m |-> 0, e |-> 0]

\* the ValueError float() raises on text that is no number
ValueError == [tag |-> "ValueError", s |-> <<>>, m |-> 0, e |-> 0]

\* Python's None
None == [tag |-> "None", s |-> <<>>, m |-> 0, e |-> 0]

RECURSIVE Pow10(_)
Pow10(k) == IF k = 0 THEN 1 ELSE 10 * Pow10(k - 1)

Max(a, b) == IF a >= b THEN a ELSE b

\* x + y on numbers
Add(x, y) == LET e == Max(x.e, y.e)
             IN  Number(x.m * Pow10(e - x.e) + y.m * Pow10(e - y.e), e)

\* x <= y on numbers
Leq(x, y) == LET e == Max(x.e, y.e)
             IN  x.m * Pow10(e - x.e) <= y.m * Pow10(e - y.e)

\* ------------------------------------------------------------- str, float

DigitVal == [c \in {"0", "1", "2", "3", "4", "5", "6", "7", "8", "9"} |->
               CASE c = "0" -> 0 [] c = "1" -> 1 [] c = "2" -> 2 [] c = "3" -> 3
                 [] c = "4" -> 4 [] c = "5" -> 5 [] c = "6" -> 6 [] c = "7" -> 7
                 [] c = "8" -> 8 [] c = "9" -> 9]

IsDigit(c) == c \in DOMAIN DigitVal

\* str.replace(old, new) for a one-character old; new is a text (empty or not)
RECURSIVE replace(_, _, _)
replace(s, old, new) ==
    IF s = <<>> THEN <<>>
    ELSE (IF Head(s) = old THEN new ELSE <<Head(s)>>) \o replace(Tail(s), old, new)

\* the value of a run of digits
RECURSIVE DigitsValue(_)
DigitsValue(s) ==
    IF s = <<>> THEN 0
    ELSE 10 * DigitsValue(SubSeq(s, 1, Len(s) - 1)) + DigitVal[s[Len(s)]]

\* float(s) over texts of digits, '.', a leading sign and other characters:
\* [sign] digits ['.' [digits]] or [sign] '.' digits; anything else raises.
\* (Exponents, underscores, surrounding blanks and the words inf and nan are
\* not in the alphabet of the modelled texts.)
float(s) ==
    LET signed == s # <<>> /\ Head(s) \in {"-", "+"}
        body   == IF signed THEN Tail(s) ELSE s
        dots   == {i \in 1..Len(body) : body[i] = "."}
        digits == SelectSeq(body, IsDigit)
        wellformed == /\ \A i \in 1..Len(body) : IsDigit(body[i]) \/ body[i] = "."
                      /\ Cardinality(dots) <= 1
                      /\ digits # <<>>
        places == IF dots = {} THEN 0 ELSE Len(body) - (CHOOSE i \in dots : TRUE)
        mag    == DigitsValue(digits)
    IN  IF ~wellformed THEN ValueError
        ELSE Number(IF signed /\ Head(s) = "-" THEN 0 - mag ELSE mag, places)

\* -------------------------------------------------------------- cleaners

\* a cleaner that takes ',' for '.' before it drops the thousands separators
clean_currency_misordered(value) ==
    IF value.tag = "str"
    THEN float(replace(replace(replace(value.s, "$", <<>>), ",", <<".">>), ".", <<>>))
    ELSE value

\* a cleaner that falls through without a return for a value that is no text
clean_currency_no_passthrough(value) ==
    IF value.tag = "str"
    THEN float(replace(replace(replace(value.s, "$", <<>>), ".", <<>>), ",", <<".">>))
    ELSE None

\* a cleaner that puts 0 in place of a text it cannot parse
clean_currency_fallback(value) ==
    IF value.tag = "str"
    THEN LET r == float(replace(replace(replace(value.s, "$", <<>>), ".", <<>>), ",", <<".">>))
         IN  IF r = ValueError THEN Number(0, 0) ELSE r
    ELSE value

clean_currency(value) ==
    IF value.tag = "str"
    THEN float(replace(replace(replace(value.s, "$", <<>>), ".", <<>>), ",", <<".">>))
    ELSE value

\* a cleaner that drops the thousands separators as clean_currency does
clean_decimal_strips_dots(value) ==
    IF value.tag = "str"
    THEN float(replace(replace(value.s, ".", <<>>), ",", <<".">>))
    ELSE value

clean_decimal(value) ==
    IF value.tag = "str"
    THEN float(replace(value.s, ",", <<".">>))
    ELSE value

\* ------------------------------------------------------------ data frames

\* A DataFrame is [index |-> the row labels (the date column), rows |-> one
\* record of cells per row]; both sequences have the same length.
DataFrame(index, rows) == [index |-> index, rows |-> rows]

EmptyFrame == DataFrame(<<>>, <<>>)

\* the columns left after df = df[df.columns[1:]]
Columns == {"daily_new_kyc", "daily_new_card", "daily_first_spend",
            "daily_total_spend", "daily_average_spend"}

cumulative_cols == <<"daily_new_kyc", "daily_new_card", "daily_first_spend",
                     "daily_total_spend", "daily_average_spend">>

\* add_prefix('cum_') on the cumulative columns
CumName == [c \in Columns |->
              CASE c = "daily_new_kyc"       -> "cum_daily_new_kyc"
                [] c = "daily_new_card"      -> "cum_daily_new_card"
                [] c = "daily_first_spend"   -> "cum_daily_first_spend"
                [] c = "daily_total_spend"   -> "cum_daily_total_spend"
                [] c = "daily_average_spend" -> "cum_daily_average_spend"]

CumColumns == {CumName[cumulative_cols[i]] : i \in 1..Len(cumulative_cols)}

\* the column a cum_ column was summed from
Daily(cc) == CHOOSE c \in Columns : CumName[c] = cc

\* df_clean['daily_total_spend'].apply(clean_currency): every cell of the
\* column cleaned, in row order
ApplyCleanCurrency(rows) ==
    [i \in 1..Len(rows) |->
        [rows[i] EXCEPT !["daily_total_spend"] = clean_currency(@)]]

\* df_clean['daily_average_spend'].apply(clean_decimal)
ApplyCleanDecimal(rows) ==
    [i \in 1..Len(rows) |->
        [rows[i] EXCEPT !["daily_average_spend"] = clean_decimal(@)]]

\* whether an apply raised: some cell came back as the ValueError of float()
Raised(rows, col) == \E i \in 1..Len(rows) : rows[i][col] = ValueError

\* a running sum that leaves the row's own value out of its total
RECURSIVE cumsum_exclusive(_)
cumsum_exclusive(rows) ==
    IF rows = <<>> THEN <<>>
    ELSE LET n    == Len(rows)
             prev == cumsum_exclusive(SubSeq(rows, 1, n - 1))
         IN  Append(prev, [cc \in CumColumns |->
                             IF n = 1 THEN Number(0, 0)
                             ELSE Add(prev[n - 1][cc], rows[n - 1][Daily(cc)])])

\* a running sum that subtracts instead of adding
RECURSIVE cumsum_subtracting(_)
cumsum_subtracting(rows) ==
    IF rows = <<>> THEN <<>>
    ELSE LET n    == Len(rows)
             prev == cumsum_subtracting(SubSeq(rows, 1, n - 1))
             cur  == rows[n]
         IN  Append(prev, [cc \in CumColumns |->
                             IF n = 1 THEN cur[Daily(cc)]
                             ELSE Add(prev[n - 1][cc],
                                      Number(0 - cur[Daily(cc)].m, cur[Daily(cc)].e))])

\* df_clean[cumulative_cols].cumsum().add_prefix('cum_'): row i of the result
\* holds, per column, the sum of rows 1..i, added in row order
RECURSIVE cumsum(_)
cumsum(rows) ==
    IF rows = <<>> THEN <<>>
    ELSE LET n    == Len(rows)
             prev == cumsum(SubSeq(rows, 1, n - 1))
         IN  Append(prev, [cc \in CumColumns |->
                             IF n = 1 THEN rows[n][Daily(cc)]
                             ELSE Add(prev[n - 1][cc], rows[n][Daily(cc)])])

\* one row of the concatenation: the columns of a beside the columns of b
Beside(a, b) == [c \in DOMAIN a \cup DOMAIN b |-> IF c \in DOMAIN a THEN a[c] ELSE b[c]]

\* a row of missing values over the given columns
Missing(cols) == [c \in cols |-> NaN]

HasDuplicates(index) == \E i, j \in 1..Len(index) : i # j /\ index[i] = index[j]

\* the position of a label in an index without duplicates (0: absent)
Position(index, label) ==
    IF \E i \in 1..Len(index) : index[i] = label
    THEN CHOOSE i \in 1..Len(index) : index[i] = label
    ELSE 0

\* the labels of the right index that the left index lacks, in their order
NewLabels(left, right) == SelectSeq(right, LAMBDA l : Position(left, l) = 0)

\* a concat that pairs the rows by position and stops at the shorter frame
concat_inner_positional(a, acols, b, bcols) ==
    LET n == IF Len(a.rows) <= Len(b.rows) THEN Len(a.rows) ELSE Len(b.rows)
    IN  DataFrame(SubSeq(a.index, 1, n), [i \in 1..n |-> Beside(a.rows[i], b.rows[i])])

\* a concat that pairs every row with the last row of the right frame
concat_last_right(a, acols, b, bcols) ==
    DataFrame(a.index, [i \in 1..Len(a.rows) |-> Beside(a.rows[i], b.rows[Len(b.rows)])])

\* pd.concat([a, b], axis=1): the rows of both frames aligned on the index
\* label (outer join): the labels of a, then those only b has; a cell of a
\* frame that lacks the label is missing.  Equal indexes pair row for row.
\* (Defined for indexes that are equal or hold no label twice: one row per
\* date.)
concat(a, acols, b, bcols) ==
    IF a.index = b.index
    THEN DataFrame(a.index, [i \in 1..Len(a.rows) |-> Beside(a.rows[i], b.rows[i])])
    ELSE LET index == a.index \o NewLabels(a.index, b.index)
             RowOf(f, cols, l) == IF Position(f.index, l) = 0 THEN Missing(cols)
                                  ELSE f.rows[Position(f.index, l)]
         IN  DataFrame(index, [i \in 1..Len(index) |->
                                 Beside(RowOf(a, acols, index[i]), RowOf(b, bcols, index[i]))])

\* ---------------------------------------------------------------- inputs

\* the characters of the enumerated texts: the three the cleaners rewrite,
\* a sign, two digits and a character no number holds
Alphabet == {"$", ".", ",", "-", "0", "1", "x"}

\* every text of at most MaxLen characters of the alphabet
Texts == UNION {[1..n -> Alphabet] : n \in 0..MaxLen}

\* "$1.234,56"
CurrencyExample == <<"$", "1", ".", "2", "3", "4", ",", "5", "6">>

\* "1.234,56"
ThousandsExample == <<"1", ".", "2", "3", "4", ",", "5", "6">>

\* "123,45"
DecimalExample == <<"1", "2", "3", ",", "4", "5">>

\* "not-a-number"
NotANumber == <<"n", "o", "t", "-", "a", "-", "n", "u", "m", "b", "e", "r">>

\* "$100,00" and "$200,00"
Spend100 == <<"$", "1", "0", "0", ",", "0", "0">>

Spend200 == <<"$", "2", "0", "0", ",", "0", "0">>

ExampleTexts == {CurrencyExample, ThousandsExample, DecimalExample, NotANumber,
                 Spend100, Spend200, <<"1", ".", "0", "0", "0">>, <<"1", ",", "2", ",", "3">>}

\* the numbers handed to a cleaner as they are
Numbers == {Number(m, e) : m \in {-15, 0, 7, 125}, e \in 0..2}

\* what a cell of the two spend columns can hold: text, or a number already
CleanerInputs == {Text(s) : s \in Texts \cup ExampleTexts} \cup Numbers

Row(kyc, card, first, total, average) ==
    [daily_new_kyc |-> Number(kyc, 0), daily_new_card |-> Number(card, 0),
     daily_first_spend |-> Number(first, 0),
     daily_total_spend |-> total, daily_average_spend |-> average]

\* the rows of the enumerated datasets
RowUniverse ==
    {Row(k, cf[1], cf[2], t, a) :
        k \in {-1, 0, 2}, cf \in {<<0, 0>>, <<3, 1>>},
        t \in {Text(CurrencyExample), Text(<<"1", ",", "2", ",", "3">>), Number(5, 1)},
        a \in {Text(<<"0", ",", "5">>), Text(<<"-", "1", ",", "2", "5">>), Text(<<>>)}}

\* the date labels 1..n of a frame of n rows read in date order
Dates(n) == [i \in 1..n |-> i]

\* the rows [10, 20, 30] of the cumulative example
TenTwentyThirty ==
    <<Row(10, 1, 0, Text(Spend100), Text(DecimalExample)),
      Row(20, 2, 1, Text(Spend200), Text(<<"0", ",", "5">>)),
      Row(30, 3, 2, Number(5, 1), Number(125, 2))>>

\* the rows of the end-to-end scenario
Scenario ==
    <<Row(5, 3, 1, Text(Spend100), Text(DecimalExample)),
      Row(7, 2, 0, Text(Spend200), Text(<<"0", ",", "5">>))>>

\* the scenario with a total spend that is no number in its second row
BadScenario ==
    <<Scenario[1], Row(7, 2, 0, Text(NotANumber), Text(<<"0", ",", "5">>))>>

\* the named example datasets
ExampleRows == {TenTwentyThirty, Scenario, BadScenario}

\* ----------------------------------------------------------------- state

VARIABLES
    pc,                \* the statement of the script that runs next
    df,                \* the dataset read from kast_data.csv
    df_clean,          \* the cleaned copy
    df_cum,            \* the cumulative sums
    combined_df,       \* cleaned and cumulative columns side by side
    namespace,         \* the names the script has bound in this run
    exception,         \* the exception that ended the run, "" if none
    kpi,               \* the five values handed to st.metric
    widget,            \* the selection the multiselect widget holds
    selected_metrics,  \* what st.multiselect returned in this run
    metric_choice,     \* what st.selectbox returned in this run
    ui,                \* the elements the run has put on the page, in order
    fn,                \* the cleaner that was called, "" before the call
    arg,               \* the value handed to the cleaner
    ret,               \* what the cleaner returned
    fed                \* whether arg is the output of an earlier call

vars == <<pc, df, df_clean, df_cum, combined_df, namespace, exception, kpi,
          widget, selected_metrics, metric_choice, ui, fn, arg, ret, fed>>

scriptVars == <<pc, df, df_clean, df_cum, combined_df, namespace, exception, kpi,
                widget, selected_metrics, metric_choice, ui>>

callVars == <<fn, arg, ret, fed>>

\* the state of a run before its first statement
StartOfRun ==
    /\ pc = "copy"
    /\ df_clean = EmptyFrame
    /\ df_cum = EmptyFrame
    /\ combined_df = EmptyFrame
    /\ namespace = {"df"}
    /\ exception = ""
    /\ kpi = <<>>
    /\ selected_metrics = {}
    /\ metric_choice = ""
    /\ ui = <<>>

NoCall == fn = "" /\ arg = None /\ ret = None /\ fed = FALSE

\* ------------------------------------------------- the script, by statement

\* an uncaught exception ends the run: nothing after the statement runs
Raise(name) ==
    /\ exception' = name
    /\ pc' = "error"

\* df_clean = df.copy()
Copy ==
    /\ pc = "copy"
    /\ df_clean' = df
    /\ namespace' = namespace \cup {"df_clean"}
    /\ pc' = "clean_total_spend"
    /\ UNCHANGED <<df, df_cum, combined_df, exception, kpi, widget,
                   selected_metrics, metric_choice, ui, callVars>>

\* df_clean['daily_total_spend'] = df_clean['daily_total_spend'].apply(clean_currency)
CleanTotalSpend ==
    /\ pc = "clean_total_spend"
    /\ LET rows == ApplyCleanCurrency(df_clean.rows)
       IN  IF Raised(rows, "daily_total_spend")
           THEN Raise("ValueError") /\ UNCHANGED df_clean
           ELSE /\ df_clean' = [df_clean EXCEPT !.rows = rows]
                /\ pc' = "clean_average_spend"
                /\ UNCHANGED exception
    /\ UNCHANGED <<df, df_cum, combined_df, namespace, kpi, widget,
                   selected_metrics, metric_choice, ui, callVars>>

\* df_clean['daily_average_spend'] = df_clean['daily_average_spend'].apply(clean_decimal)
CleanAverageSpend ==
    /\ pc = "clean_average_spend"
    /\ LET rows == ApplyCleanDecimal(df_clean.rows)
       IN  IF Raised(rows, "daily_average_spend")
           THEN Raise("ValueError") /\ UNCHANGED df_clean
           ELSE /\ df_clean' = [df_clean EXCEPT !.rows = rows]
                /\ pc' = "cumsum"
                /\ UNCHANGED exception
    /\ UNCHANGED <<df, df_cum, combined_df, namespace, kpi, widget,
                   selected_metrics, metric_choice, ui, callVars>>

\* df_cum = df_clean[cumulative_cols].cumsum().add_prefix('cum_')
CumSum ==
    /\ pc = "cumsum"
    /\ df_cum' = DataFrame(df_clean.index, cumsum(df_clean.rows))
    /\ namespace' = namespace \cup {"df_cum"}
    /\ pc' = "concat"
    /\ UNCHANGED <<df, df_clean, combined_df, exception, kpi, widget,
                   selected_metrics, metric_choice, ui, callVars>>

\* combined_df = pd.concat([df_clean, df_cum], axis=1)
Concat ==
    /\ pc = "concat"
    /\ combined_df' = concat(df_clean, Columns, df_cum, CumColumns)
    /\ namespace' = namespace \cup {"combined_df"}
    /\ pc' = "key_metrics"
    /\ UNCHANGED <<df, df_clean, df_cum, exception, kpi, widget, selected_metrics,
                   metric_choice, ui, callVars>>

\* a summary whose fifth value is the cumulative average spend
KeyMetricValuesAllCumulative(frame) ==
    LET last == frame.rows[Len(frame.rows)]
    IN  <<last["cum_daily_new_kyc"], last["cum_daily_new_card"],
          last["cum_daily_first_spend"], last["cum_daily_total_spend"],
          last["cum_daily_average_spend"]>>

\* the operands of the five st.metric format strings: .iloc[-1] of four
\* cumulative columns and of daily_average_spend
KeyMetricValues(frame) ==
    LET last == frame.rows[Len(frame.rows)]
    IN  <<last["cum_daily_new_kyc"], last["cum_daily_new_card"],
          last["cum_daily_first_spend"], last["cum_daily_total_spend"],
          last["daily_average_spend"]>>

\* the five st.metric cards; .iloc[-1] of an empty frame raises IndexError
KeyMetrics ==
    /\ pc = "key_metrics"
    /\ IF combined_df.rows = <<>>
       THEN Raise("IndexError") /\ UNCHANGED <<kpi, ui>>
       ELSE /\ kpi' = KeyMetricValues(combined_df)
            /\ ui' = Append(ui, "metrics")
            /\ pc' = "multiselect"
            /\ UNCHANGED exception
    /\ UNCHANGED <<df, df_clean, df_cum, combined_df, namespace, widget,
                   selected_metrics, metric_choice, callVars>>

\* selected_metrics = st.multiselect(..., options=df_cum.columns, default=all):
\* the call returns what the widget holds
Multiselect ==
    /\ pc = "multiselect"
    /\ selected_metrics' = widget
    /\ namespace' = namespace \cup {"selected_metrics"}
    /\ pc' = "cumulative_chart"
    /\ UNCHANGED <<df, df_clean, df_cum, combined_df, exception, kpi, widget,
                   metric_choice, ui, callVars>>

\* a page that draws the line chart whatever the selection is
ChartElementAlways(selection) == "line_chart"

\* if selected_metrics: the line chart of df_cum; else: st.warning
ChartElement(selection) == IF selection # {} THEN "line_chart" ELSE "warning"

CumulativeChart ==
    /\ pc = "cumulative_chart"
    /\ ui' = Append(ui, ChartElement(selected_metrics))
    /\ pc' = "daily_breakdown"
    /\ UNCHANGED <<df, df_clean, df_cum, combined_df, namespace, exception, kpi,
                   widget, selected_metrics, metric_choice, callVars>>

\* metric_choice = st.selectbox(...) and the bar chart of combined_df
DailyBreakdown ==
    /\ pc = "daily_breakdown"
    /\ \E choice \in Columns : metric_choice' = choice
    /\ ui' = Append(ui, "bar_chart")
    /\ pc' = "done"
    /\ UNCHANGED <<df, df_clean, df_cum, combined_df, namespace, exception, kpi,
                   widget, selected_metrics, callVars>>

\* the user changes the multiselect: the widget keeps the new selection and
\* the script runs again from the top, with nothing kept of the last run
Interact ==
    /\ pc \in {"done", "error"}
    /\ \E selection \in SUBSET CumColumns : widget' = selection
    /\ pc' = "copy"
    /\ df_clean' = EmptyFrame
    /\ df_cum' = EmptyFrame
    /\ combined_df' = EmptyFrame
    /\ namespace' = {"df"}
    /\ exception' = ""
    /\ kpi' = <<>>
    /\ selected_metrics' = {}
    /\ metric_choice' = ""
    /\ ui' = <<>>
    /\ UNCHANGED <<df, callVars>>

\* ------------------------------------------------------ a call of a cleaner

CallCleanCurrency ==
    /\ fn = ""
    /\ fn' = "clean_currency"
    /\ ret' = clean_currency(arg)
    /\ UNCHANGED <<arg, fed, scriptVars>>

CallCleanDecimal ==
    /\ fn = ""
    /\ fn' = "clean_decimal"
    /\ ret' = clean_decimal(arg)
    /\ UNCHANGED <<arg, fed, scriptVars>>

\* the number a cleaner returned is handed to a cleaner again
Feed ==
    /\ fn # ""
    /\ ret.tag = "num"
    /\ ~fed
    /\ arg' = ret
    /\ fed' = TRUE
    /\ fn' = ""
    /\ ret' = None
    /\ UNCHANGED scriptVars

\* --------------------------------------------------------- specifications

\* the datasets of the page runs: prefixes of the scenario, with or without a
\* row whose total spend is no number
PageRows == {Scenario[1], Scenario[2],
             Row(1, 1, 1, Text(NotANumber), Text(DecimalExample))}

\* a page: the script from the top, run again on every interaction
Init ==
    /\ \E n \in 0..MaxRows :
          \E rows \in [1..n -> PageRows] : df = DataFrame(Dates(n), rows)
    /\ widget = CumColumns
    /\ StartOfRun
    /\ NoCall

Next ==
    \/ Copy
    \/ CleanTotalSpend
    \/ CleanAverageSpend
    \/ CumSum
    \/ Concat
    \/ KeyMetrics
    \/ Multiselect
    \/ CumulativeChart
    \/ DailyBreakdown
    \/ Interact

Spec == Init /\ [][Next]_vars

\* the pipeline of one run, to the summary, over every dataset of at most
\* MaxRows rows of the row universe and over the named examples
InitPipeline ==
    /\ \E n \in 0..MaxRows :
          \E rows \in [1..n -> RowUniverse] \cup ExampleRows :
              df = DataFrame(Dates(Len(rows)), rows)
    /\ widget = CumColumns
    /\ StartOfRun
    /\ NoCall

NextPipeline ==
    \/ Copy
    \/ CleanTotalSpend
    \/ CleanAverageSpend
    \/ CumSum
    \/ Concat
    \/ KeyMetrics

SpecPipeline == InitPipeline /\ [][NextPipeline]_vars

\* the cleaners as functions: one value, cleaned, and the result cleaned again
InitCleaners ==
    /\ df = EmptyFrame
    /\ widget = CumColumns
    /\ StartOfRun
    /\ fn = ""
    /\ arg \in CleanerInputs
    /\ ret = None
    /\ fed = FALSE

NextCleaners ==
    \/ CallCleanCurrency
    \/ CallCleanDecimal
    \/ Feed

SpecCleaners == InitCleaners /\ [][NextCleaners]_vars

\* the indexes a frame handed to the merge can have: at most MaxRows date
\* labels, none twice
Indexes == {index \in UNION {[1..n -> 1..(MaxRows + 1)] : n \in 0..MaxRows} :
               ~HasDuplicates(index)}

\* a cleaned frame over an index: the row of label l counts l new KYCs
CleanedOver(index) ==
    DataFrame(index, [i \in 1..Len(index) |->
                        Row(index[i], 1, 0, Number(index[i], 0), Number(5, 1))])

\* the merge as a function of any cleaned frame and any cumulative frame
InitMerge ==
    /\ df = EmptyFrame
    /\ widget = CumColumns
    /\ pc = "concat"
    /\ \E left, right \in Indexes :
          /\ df_clean = CleanedOver(left)
          /\ df_cum = DataFrame(right, cumsum(CleanedOver(right).rows))
    /\ combined_df = EmptyFrame
    /\ namespace = {"df", "df_clean", "df_cum"}
    /\ exception = ""
    /\ kpi = <<>>
    /\ selected_metrics = {}
    /\ metric_choice = ""
    /\ ui = <<>>
    /\ NoCall

NextMerge == Concat

SpecMerge == InitMerge /\ [][NextMerge]_vars

\* ------------------------------------------------------- the cleaners' claims

\* the text left when every '$' and every '.' is dropped and every ',' that
\* remains is written '.'
CurrencyRewrite(s) ==
    LET kept == SelectSeq(s, LAMBDA c : c \notin {"$", "."})
    IN  [i \in 1..Len(kept) |-> IF kept[i] = "," THEN "." ELSE kept[i]]

\* the text with every ',' written '.', and nothing else changed
DecimalRewrite(s) == [i \in 1..Len(s) |-> IF s[i] = "," THEN "." ELSE s[i]]

\* C1: for every text, clean_currency returns what parsing gives after '$'
\* and every '.' are removed and ',' is replaced by '.' (the parse error when
\* that is no number); "$1.234,56" gives 1234.56, "1.000" gives 1000.
C1_CurrencyCleaner ==
    (fn = "clean_currency" /\ arg.tag = "str") =>
        /\ ret = float(CurrencyRewrite(arg.s))
        /\ arg.s = CurrencyExample => ret = Number(123456, 2)
        /\ arg.s = <<"1", ".", "0", "0", "0">> => ret = Number(1000, 0)
        /\ arg.s = Spend100 => ret = Number(100, 0)
        /\ arg.s = <<"$", "1", ",", "1">> => ret = Number(11, 1)

C1_Witness ==
    /\ fn = "clean_currency"
    /\ arg = Text(CurrencyExample)
    /\ ret = Number(123456, 2)

\* a text clean_currency turns into a number only because it drops the '.':
\* with the '.' kept, the text is no number
AcceptedForThousandsSeparator(s) ==
    /\ float(CurrencyRewrite(s)).tag = "num"
    /\ float(DecimalRewrite(SelectSeq(s, LAMBDA c : c # "$"))) = ValueError

\* C2: for every text, clean_decimal returns what parsing gives after ',' is
\* replaced by '.' and no '.' is removed; "123,45" gives 123.45; a text that
\* clean_currency accepts only thanks to dropping a thousands separator, as
\* "1.234,56", does not come out of clean_decimal as the number clean_currency
\* gives.
C2_DecimalCleaner ==
    (fn = "clean_decimal" /\ arg.tag = "str") =>
        /\ ret = float(DecimalRewrite(arg.s))
        /\ arg.s = DecimalExample => ret = Number(12345, 2)
        /\ AcceptedForThousandsSeparator(arg.s) => ret # float(CurrencyRewrite(arg.s))
        /\ arg.s = ThousandsExample => ret = ValueError

C2_Witness ==
    /\ fn = "clean_decimal"
    /\ arg = Text(ThousandsExample)
    /\ AcceptedForThousandsSeparator(arg.s)
    /\ clean_currency(arg) = Number(123456, 2)
    /\ ret = ValueError

\* C3: a value that is no text comes back from either cleaner as it went in,
\* so cleaning the number a cleaner returned returns that number again.
C3_NumericPassThrough ==
    (fn # "" /\ arg.tag = "num") => ret = arg

C3_Witness ==
    /\ fed
    /\ fn = "clean_currency"
    /\ arg = Number(11, 1)
    /\ ret = arg

\* ------------------------------------------------------ the pipeline's claims

Zero == Number(0, 0)

\* the sum of rows 1..i of a column, the last row added first
RECURSIVE SumTo(_, _, _)
SumTo(rows, col, i) ==
    IF i = 0 THEN Zero ELSE Add(rows[i][col], SumTo(rows, col, i - 1))

\* the column of a frame as a sequence of cells
ColumnOf(frame, col) == [i \in 1..Len(frame.rows) |-> frame.rows[i][col]]

Ints(s) == [i \in 1..Len(s) |-> Number(s[i], 0)]

\* C4: once df_cum is computed it has a row per row of df_clean, under the
\* same labels, and for each of the five columns row i of cum_<column> is the
\* sum of rows 1..i of the cleaned column; [10, 20, 30] gives [10, 30, 60],
\* the scenario gives cumulative KYC [5, 12] and cumulative spend [100, 300].
C4_CumulativeSums ==
    "df_cum" \in namespace =>
        /\ df_cum.index = df_clean.index
        /\ Len(df_cum.rows) = Len(df_clean.rows)
        /\ \A i \in 1..Len(df_cum.rows) :
              /\ DOMAIN df_cum.rows[i] = CumColumns
              /\ \A c \in Columns :
                    df_cum.rows[i][CumName[c]] = SumTo(df_clean.rows, c, i)
        /\ df.rows = TenTwentyThirty =>
              ColumnOf(df_cum, "cum_daily_new_kyc") = Ints(<<10, 30, 60>>)
        /\ df.rows = Scenario =>
              /\ ColumnOf(df_cum, "cum_daily_new_kyc") = Ints(<<5, 12>>)
              /\ ColumnOf(df_cum, "cum_daily_total_spend") = Ints(<<100, 300>>)

C4_Witness ==
    /\ "df_cum" \in namespace
    /\ df.rows = TenTwentyThirty
    /\ ColumnOf(df_cum, "cum_daily_new_kyc") = Ints(<<10, 30, 60>>)
    /\ df_cum.rows[3]["cum_daily_average_spend"] = Number(12520, 2)

\* a cell of daily_total_spend that is text and no number after the currency
\* substitutions
BadTotalSpend(cell) == cell.tag = "str" /\ float(CurrencyRewrite(cell.s)) = ValueError

\* a cell of daily_average_spend that is text and no number after the decimal
\* substitution
BadAverageSpend(cell) == cell.tag = "str" /\ float(DecimalRewrite(cell.s)) = ValueError

\* the dataset holds a spend text that cannot be parsed
Unparseable(frame) ==
    \E i \in 1..Len(frame.rows) :
        \/ BadTotalSpend(frame.rows[i]["daily_total_spend"])
        \/ BadAverageSpend(frame.rows[i]["daily_average_spend"])

\* C5: with a spend text that cannot be parsed in the dataset the run never
\* gets past the cleaning statements: it ends there with the ValueError of
\* float(); no cumulative table, combined table or summary value exists, and
\* the bad cell still holds its text in df_clean (no value put in its place).
C5_ParseErrorPropagates ==
    Unparseable(df) =>
        /\ pc \in {"copy", "clean_total_spend", "clean_average_spend", "error"}
        /\ pc = "error" => exception = "ValueError"
        /\ namespace \cap {"df_cum", "combined_df"} = {}
        /\ df_cum = EmptyFrame /\ combined_df = EmptyFrame
        /\ kpi = <<>> /\ ui = <<>>
        /\ "df_clean" \in namespace =>
              \A i \in 1..Len(df.rows) :
                 /\ BadTotalSpend(df.rows[i]["daily_total_spend"]) =>
                       df_clean.rows[i]["daily_total_spend"] = df.rows[i]["daily_total_spend"]
                 /\ BadAverageSpend(df.rows[i]["daily_average_spend"]) =>
                       df_clean.rows[i]["daily_average_spend"] = df.rows[i]["daily_average_spend"]

C5_Witness ==
    /\ df.rows = BadScenario
    /\ pc = "error"
    /\ exception = "ValueError"
    /\ "df_cum" \notin namespace
    /\ df_clean.rows[2]["daily_total_spend"] = Text(NotANumber)

\* the cleaned value of a cell of a column, as the cleaners' contracts give it
CleanedCell(col, cell) ==
    IF cell.tag # "str" THEN cell
    ELSE IF col = "daily_total_spend" THEN float(CurrencyRewrite(cell.s))
    ELSE IF col = "daily_average_spend" THEN float(DecimalRewrite(cell.s))
    ELSE cell

\* C7: for a dataset that is not empty, once combined_df exists it has the
\* rows of the dataset, under the same labels in the same order, and row i
\* holds the cleaned fields of row i of the dataset beside the cumulative
\* fields of position i.
C7_RowForRowMerge ==
    ("combined_df" \in namespace /\ df.rows # <<>>) =>
        /\ combined_df.index = df.index
        /\ Len(combined_df.rows) = Len(df.rows)
        /\ \A i \in 1..Len(combined_df.rows) :
              /\ DOMAIN combined_df.rows[i] = Columns \cup CumColumns
              /\ \A c \in Columns :
                    /\ combined_df.rows[i][c] = CleanedCell(c, df.rows[i][c])
                    /\ combined_df.rows[i][CumName[c]] = SumTo(df_clean.rows, c, i)

C7_Witness ==
    /\ "combined_df" \in namespace
    /\ df.rows = Scenario
    /\ Len(combined_df.rows) = 2
    /\ combined_df.rows[1]["daily_total_spend"] = Number(100, 0)
    /\ combined_df.rows[1]["cum_daily_new_kyc"] = Number(5, 0)
    /\ combined_df.rows[2]["daily_new_kyc"] = Number(7, 0)
    /\ combined_df.rows[2]["cum_daily_new_kyc"] = Number(12, 0)

\* every cleaned value of the column is zero or more
NonNegative(frame, col) == \A i \in 1..Len(frame.rows) : Leq(Zero, frame.rows[i][col])

\* C8: a column whose cleaned values are all non-negative has a cumulative
\* column that never decreases from a row to the next.
C8_CumulativeMonotone ==
    "df_cum" \in namespace =>
        \A c \in Columns :
            NonNegative(df_clean, c) =>
                \A i \in 1..(Len(df_cum.rows) - 1) :
                    Leq(df_cum.rows[i][CumName[c]], df_cum.rows[i + 1][CumName[c]])

C8_Witness ==
    /\ "df_cum" \in namespace
    /\ Len(df_cum.rows) = 2
    /\ NonNegative(df_clean, "daily_total_spend")
    /\ df_cum.rows[1]["cum_daily_total_spend"] = Number(5, 1)
    /\ df_cum.rows[2]["cum_daily_total_spend"] = Number(123506, 2)
    /\ ~NonNegative(df_clean, "daily_new_kyc")

\* C9: the five summary values come from the last row of combined_df: the
\* final cum_daily_new_kyc, cum_daily_new_card, cum_daily_first_spend and
\* cum_daily_total_spend, each the sum of its column over all rows, and the
\* last row's cleaned daily_average_spend, not its cumulative column.
C9_SummaryValues ==
    kpi # <<>> =>
        LET n    == Len(combined_df.rows)
            last == combined_df.rows[n]
        IN  /\ n = Len(df.rows) /\ n > 0
            /\ Len(kpi) = 5
            /\ kpi[1] = last["cum_daily_new_kyc"]
            /\ kpi[1] = SumTo(df_clean.rows, "daily_new_kyc", n)
            /\ kpi[2] = last["cum_daily_new_card"]
            /\ kpi[2] = SumTo(df_clean.rows, "daily_new_card", n)
            /\ kpi[3] = last["cum_daily_first_spend"]
            /\ kpi[3] = SumTo(df_clean.rows, "daily_first_spend", n)
            /\ kpi[4] = last["cum_daily_total_spend"]
            /\ kpi[4] = SumTo(df_clean.rows, "daily_total_spend", n)
            /\ kpi[5] = CleanedCell("daily_average_spend", df.rows[n]["daily_average_spend"])

C9_Witness ==
    /\ df.rows = Scenario
    /\ kpi = <<Number(12, 0), Number(5, 0), Number(1, 0), Number(300, 0), Number(5, 1)>>
    /\ combined_df.rows[2]["cum_daily_average_spend"] = Number(12395, 2)

\* --------------------------------------------------------- the merge's claims

Labels(index) == {index[i] : i \in 1..Len(index)}

\* the merge has run on frames of different lengths
MergedMismatched == pc # "concat" /\ Len(df_clean.rows) # Len(df_cum.rows)

RowFor(frame, cols, label) ==
    IF label \in Labels(frame.index)
    THEN frame.rows[CHOOSE i \in 1..Len(frame.index) : frame.index[i] = label]
    ELSE Missing(cols)

Shown(element) == \E i \in 1..Len(ui) : ui[i] = element

\* the cleaning and the aggregation have run in this run of the script
CoreInvoked == namespace \cap {"df_clean", "df_cum", "combined_df"} # {}

\* C10 as stated: in a run with nothing selected the cleaning and the
\* aggregation are not invoked, and the warning is shown instead of the chart.
C10_CoreSkippedWhenNothingSelected ==
    widget = {} =>
        /\ ~CoreInvoked
        /\ pc \in {"daily_breakdown", "done"} => (Shown("warning") /\ ~Shown("line_chart"))

\* C10 as amended: in a run with nothing selected the cleaning and the
\* aggregation have run, as in every run, before the selection is read; the
\* warning is then shown instead of the cumulative line chart.
C10_WarningAfterCore ==
    /\ pc \notin {"copy", "error"} => "df_clean" \in namespace
    /\ (selected_metrics = {} /\ pc \in {"daily_breakdown", "done"}) =>
          /\ {"df_clean", "df_cum", "combined_df"} \subseteq namespace
          /\ df_cum = DataFrame(df_clean.index, cumsum(df_clean.rows))
          /\ kpi # <<>>
          /\ Shown("metrics")
          /\ Shown("warning")
          /\ ~Shown("line_chart")

C10_Witness ==
    /\ widget = {}
    /\ selected_metrics = {}
    /\ pc = "done"
    /\ df.rows = Scenario
    /\ ColumnOf(df_cum, "cum_daily_new_kyc") = Ints(<<5, 12>>)
    /\ ui = <<"metrics", "warning", "bar_chart">>

====
